---- MODULE Spec2Model ----
(***************************************************************************)
(* The Jupyter kernel running the notebooks of workshop_pybrain:           *)
(*   notebooks/05b_machine_learning_nilearn.ipynb  (MVPA with nilearn)     *)
(*   notebooks/04a_pybids.ipynb                    (pybids queries)        *)
(* The state is the kernel's global namespace, the image files the cells   *)
(* read, the next code cell, the exception the last cell raised and the    *)
(* folds of a cross-validation call that is being evaluated.               *)
(* Library calls are modelled by their documented result on the small      *)
(* images drawn in Init.                                                   *)
(***************************************************************************)
EXTENDS Integers, Sequences, FiniteSets, TLC

VARIABLES
    nbk,    \* the notebook the kernel runs: "05b" or "04a"
    pc,     \* index (1-based) of the next code cell
    ns,     \* the kernel's global namespace: name -> value
    fs,     \* the image files on disk: path -> image
    err,    \* the exception raised by the last cell run, or "none"
    calls,  \* mask_type -> what the latest get_mask(mask_type) call returned
    pool,   \* the folds of a cross_val_score call that is being evaluated
    scored  \* n_jobs -> what the latest cross_val_score(n_jobs=...) call returned

vars == <<nbk, pc, ns, fs, err, calls, pool, scored>>

----------------------------------------------------------------------------
(* Bounds of the model *)

\* The images have shape (NVox, 1, 1): NVox voxels along x.
NVox == 3
\* Largest number of volumes of a drawn 4D image in SpecMasker.
MaxT == 2

(* Constants of the notebooks *)

NVolumes == 384          \* volumes in dataset_ML.nii.gz
NSubjects == 48          \* range(48)
VolsPerCondition == 4    \* ['closed'] * 4, ['open'] * 4
VolsPerChunk == 64       \* [i] * 64
NChunks == 6             \* range(6)
TestChunk == 5           \* chunks == 5
BinarizeThreshold == 10  \* get_fdata() >= 10

Voxels == 0 .. (NVox - 1)

\* Template intensities: negative, below the threshold, at the threshold.
Intens == {-5, 5, 10}
\* Intensities of the T1 templates shipped with the workshop (non-negative).
IntensT1 == {0, 10}
\* BOLD intensities of the functional image.
FuncVals == {1, 3}

func_path == "/home/neuro/workshop/notebooks/data/dataset_ML.nii.gz"
brain_path == "/home/neuro/workshop/notebooks/data/templates/MNI152_T1_1mm_brain.nii.gz"
eyes_path == "/home/neuro/workshop/notebooks/data/templates/MNI152_T1_1mm_eye.nii.gz"
anat_path == "/home/neuro/workshop/notebooks/data/templates/MNI152_T1_1mm.nii.gz"

----------------------------------------------------------------------------
(* Images.  A 3D image is [shape |-> <<NVox,1,1>>, data |-> [Voxels -> Int]];
   a 4D image is [shape |-> <<NVox,1,1,nt>>, data |-> [Voxels -> Seq(Int)]]. *)

Image3D(d) == [shape |-> <<NVox, 1, 1>>, data |-> d]
Image4D(nt, d) == [shape |-> <<NVox, 1, 1, nt>>, data |-> d]

TemplateImages(vals) == { Image3D(d) : d \in [Voxels -> vals] }
FuncImages(nt) == { Image4D(nt, d) : d \in [Voxels -> [1 .. nt -> FuncVals]] }

\* A 4D image of nt volumes repeating the volumes of img.
Tile(img, nt) ==
    LET p == img.shape[4]
    IN  Image4D(nt, [v \in Voxels |-> [t \in 1 .. nt |-> img.data[v][((t - 1) % p) + 1]]])

RECURSIVE SumSeq(_)
SumSeq(s) == IF s = <<>> THEN 0 ELSE Head(s) + SumSeq(Tail(s))

\* The elements of a set of naturals in ascending order.
RECURSIVE Ascending(_)
Ascending(S) ==
    IF S = {} THEN <<>>
    ELSE LET m == CHOOSE x \in S : \A y \in S : x <= y
         IN  <<m>> \o Ascending(S \ {m})

----------------------------------------------------------------------------
(* get_mask and the library calls it makes *)

\* nilearn.image.resample_to_img(source, target) for a source that is already
\* on the target's voxel grid: the interpolation is evaluated at the source's
\* own sample points and returns the stored intensities.
resample_to_img(img, target) ==
    [shape |-> SubSeq(target.shape, 1, 3), data |-> [v \in Voxels |-> img.data[v]]]

\* A faulty variant: the formula "img1 - img2".
math_img_sub(img1, img2) ==
    [shape |-> img1.shape, data |-> [v \in Voxels |-> img1.data[v] - img2.data[v]]]

\* nilearn.image.math_img("img1 + img2", img1=..., img2=...)
math_img_add(img1, img2) ==
    [shape |-> img1.shape, data |-> [v \in Voxels |-> img1.data[v] + img2.data[v]]]

\* np.array(img_resampled.get_fdata() >= 10, dtype=np.int8)
binarize(img) == [v \in Voxels |-> IF img.data[v] >= BinarizeThreshold THEN 1 ELSE 0]

\* scipy.ndimage.binary_dilation(data, iterations=1): the default structuring
\* element has connectivity 1 and the border value is 0; on a (NVox, 1, 1)
\* array a voxel's only neighbours are x - 1 and x + 1.
binary_dilation(d) ==
    [v \in Voxels |->
        IF \E w \in Voxels : (w = v \/ w = v - 1 \/ w = v + 1) /\ d[w] # 0
        THEN 1 ELSE 0]

\* A faulty variant: an else branch that falls back to the brain template.
get_mask_locals_default(mask_type, n, f) ==
    IF mask_type = "eyes"
    THEN "img_resampled" :> resample_to_img(f[eyes_path], f[n["func"]])
    ELSE IF mask_type = "both"
    THEN ("img_roi" :> math_img_add(f[brain_path], f[eyes_path]))
         @@ ("img_resampled" :>
                resample_to_img(math_img_add(f[brain_path], f[eyes_path]), f[n["func"]]))
    ELSE "img_resampled" :> resample_to_img(f[brain_path], f[n["func"]])

\* The local names the if / elif chain of get_mask binds ("Load region of
\* interest"): none when mask_type matches no branch.
get_mask_locals(mask_type, n, f) ==
    IF mask_type = "brain"
    THEN "img_resampled" :> resample_to_img(f[brain_path], f[n["func"]])
    ELSE IF mask_type = "eyes"
    THEN "img_resampled" :> resample_to_img(f[eyes_path], f[n["func"]])
    ELSE IF mask_type = "both"
    THEN ("img_roi" :> math_img_add(f[brain_path], f[eyes_path]))
         @@ ("img_resampled" :>
                resample_to_img(math_img_add(f[brain_path], f[eyes_path]), f[n["func"]]))
    ELSE <<>>

\* get_mask(mask_type) called with the globals n and the files f: the mask it
\* returns, or the exception it raises (reading the unbound local
\* img_resampled at the binarize step is an UnboundLocalError).
get_mask(mask_type, n, f) ==
    LET loc == get_mask_locals(mask_type, n, f)
    IN  IF "img_resampled" \notin DOMAIN loc
        THEN [err |-> "UnboundLocalError", at |-> "data_binary"]
        ELSE LET data_binary == binarize(loc["img_resampled"])
                 data_dilated == binary_dilation(data_binary)
             IN  [err |-> "none",
                  ret |-> [shape |-> loc["img_resampled"].shape, data |-> data_dilated]]

----------------------------------------------------------------------------
(* NiftiMasker *)

\* NiftiMasker(mask_img=mask, standardize=False, detrend=False, ...)
NiftiMasker(mask_img) == [mask_img |-> mask_img, standardize |-> FALSE, detrend |-> FALSE]

\* A faulty variant: every voxel of the grid, in or out of the mask.
mask_voxels_all(mask_img) == Ascending(Voxels)

\* The voxels of the mask, in array order.
mask_voxels(mask_img) == Ascending({v \in Voxels : mask_img.data[v] # 0})

\* A signal value is num / sqrt(den2).  Raw intensities have den2 = 1.  The
\* z-score of x in a series of n values with sum s and sum of squares q is
\* (n*x - s) / sqrt(n*q - s*s); a constant series is centred and left unscaled.
zscore_num(series, t) == Len(series) * series[t] - SumSeq(series)
zscore_den2(series) ==
    LET n == Len(series)
        s == SumSeq(series)
        q == SumSeq([t \in 1 .. n |-> series[t] * series[t]])
    IN  IF n * q - s * s = 0 THEN 1 ELSE n * q - s * s

\* The masked signals of img: one row per volume, one column per mask voxel.
\* rows[t][c] / sqrt(den2[c]) is the signal of the c-th mask voxel in volume t.
transform(masker, img) ==
    LET vox == mask_voxels(masker.mask_img)
        nt == img.shape[4]
    IN  [rows |-> [t \in 1 .. nt |->
                    [c \in 1 .. Len(vox) |->
                        IF masker.standardize
                        THEN zscore_num(img.data[vox[c]], t)
                        ELSE img.data[vox[c]][t]]],
         den2 |-> [c \in 1 .. Len(vox) |->
                    IF masker.standardize THEN zscore_den2(img.data[vox[c]]) ELSE 1]]

\* masker.fit_transform(img): fit loads the mask image and rejects a mask
\* with no voxel in it ("The mask is invalid as it is empty"), then the
\* signals are extracted.
fit_transform(masker, img) ==
    IF \A v \in Voxels : masker.mask_img.data[v] = 0
    THEN [err |-> "ValueError"]
    ELSE [err |-> "none", ret |-> transform(masker, img)]

\* The column of samples that holds voxel v (v is in the mask).
column_of(masker, v) ==
    LET vox == mask_voxels(masker.mask_img)
    IN  CHOOSE c \in 1 .. Len(vox) : vox[c] = v

\* A faulty variant: the un-masking leaves the voxels outside the mask at 1, not 0.
inverse_transform_ones(masker, X) ==
    LET nt == Len(X.rows)
        in_mask(v) == masker.mask_img.data[v] # 0
    IN  [shape |-> masker.mask_img.shape \o <<nt>>,
         data |-> [v \in Voxels |->
                    [t \in 1 .. nt |->
                        IF in_mask(v) THEN X.rows[t][column_of(masker, v)] ELSE 1]],
         den2 |-> [v \in Voxels |-> IF in_mask(v) THEN X.den2[column_of(masker, v)] ELSE 1]]

\* masker.inverse_transform(X): a 4D image on the mask's grid, one volume per
\* row of X, zero outside the mask.
inverse_transform(masker, X) ==
    LET nt == Len(X.rows)
        in_mask(v) == masker.mask_img.data[v] # 0
    IN  [shape |-> masker.mask_img.shape \o <<nt>>,
         data |-> [v \in Voxels |->
                    [t \in 1 .. nt |->
                        IF in_mask(v) THEN X.rows[t][column_of(masker, v)] ELSE 0]],
         den2 |-> [v \in Voxels |-> IF in_mask(v) THEN X.den2[column_of(masker, v)] ELSE 1]]

----------------------------------------------------------------------------
(* Labels, chunks and the splits *)

\* [x] * n
Repeat(x, n) == [i \in 1 .. n |-> x]

\* np.ravel of a list of lists: the rows one after the other.
RECURSIVE Ravel(_)
Ravel(rows) == IF rows = <<>> THEN <<>> ELSE Head(rows) \o Ravel(Tail(rows))

\* A faulty variant: 'open' first, then 'closed'.
labels_value_swapped ==
    Ravel(Ravel([i \in 1 .. NSubjects |->
        <<Repeat("open", VolsPerCondition), Repeat("closed", VolsPerCondition)>>]))

\* np.ravel([[['closed'] * 4, ['open'] * 4] for i in range(48)])
labels_value ==
    Ravel(Ravel([i \in 1 .. NSubjects |->
        <<Repeat("closed", VolsPerCondition), Repeat("open", VolsPerCondition)>>]))

\* A faulty variant: one chunk per subject (48 chunks of 8 volumes).
chunks_value_per_subject ==
    Ravel([i \in 1 .. NSubjects |-> Repeat(i - 1, 2 * VolsPerCondition)])

\* A faulty variant: chunks numbered from 1 (range(1, 7)).
chunks_value_from1 == Ravel([i \in 1 .. NChunks |-> Repeat(i, VolsPerChunk)])

\* np.ravel([[i] * 64 for i in range(6)])
chunks_value == Ravel([i \in 1 .. NChunks |-> Repeat(i - 1, VolsPerChunk)])

\* A faulty variant: the test set is chunk 4.
mask_test_value_chunk4(chunks) == [k \in 1 .. Len(chunks) |-> chunks[k] = TestChunk - 1]

\* mask_test = chunks == 5
mask_test_value(chunks) == [k \in 1 .. Len(chunks) |-> chunks[k] = TestChunk]

\* mask_train = np.invert(mask_test)
mask_train_value(mask_test) == [k \in 1 .. Len(mask_test) |-> ~mask_test[k]]

\* np.nonzero(mask): the 0-based indices a boolean mask selects, ascending.
nonzero(mask) == SelectSeq([k \in 1 .. Len(mask) |-> k - 1], LAMBDA i : mask[i + 1])

\* The 0-based indices a boolean mask selects.
selected(mask) == {k \in 0 .. (Len(mask) - 1) : mask[k + 1]}

\* labels[mask]: the entries of arr at the selected indices, in order.
take(arr, mask) ==
    LET idx == nonzero(mask)
    IN  [j \in 1 .. Len(idx) |-> arr[idx[j] + 1]]

\* nilearn.image.index_img(img, mask): the selected volumes of a 4D image.
index_img(img, mask) ==
    LET idx == nonzero(mask)
    IN  [shape |-> SubSeq(img.shape, 1, 3) \o <<Len(idx)>>,
         data |-> [v \in Voxels |-> [j \in 1 .. Len(idx) |-> img.data[v][idx[j] + 1]]]]

\* LeaveOneGroupOut().split(X, y, groups): one fold per distinct group, in
\* ascending order of the group; the fold's test set is the group's volumes
\* (0-based indices) and its training set is every other volume.
LeaveOneGroupOut_split(groups) ==
    LET idx == 0 .. (Len(groups) - 1)
        uniq == Ascending({groups[k + 1] : k \in idx})
    IN  [j \in 1 .. Len(uniq) |->
            [group |-> uniq[j],
             test |-> {k \in idx : groups[k + 1] = uniq[j]},
             train |-> {k \in idx : groups[k + 1] # uniq[j]}]]

\* cross_val_score(estimator, X, y, groups, cv=LeaveOneGroupOut()): X, y and
\* groups must have the same number of samples; the result holds one score per
\* fold, in the order of the folds.  A score is kept as what determines it:
\* the estimator and the fold it was fitted and tested on (the seed a fit
\* draws is followed fold by fold in SpecParallel).
cross_val_score(estimator, X, y, groups) ==
    IF ~(Len(X.rows) = Len(y) /\ Len(y) = Len(groups))
    THEN [err |-> "ValueError"]
    ELSE LET folds == LeaveOneGroupOut_split(groups)
         IN  [err |-> "none",
              ret |-> [j \in 1 .. Len(folds) |->
                        [estimator |-> estimator.class,
                         held_out |-> folds[j].group,
                         n_train |-> Cardinality(folds[j].train),
                         n_test |-> Cardinality(folds[j].test)]]]

----------------------------------------------------------------------------
(* The code cells.  A statement is the operation it performs, the global
   names it reads (uses), the global names it binds (binds) and, for some
   operations, an argument written in the cell. *)

Stmt(op, uses, binds, arg) == [op |-> op, uses |-> uses, binds |-> binds, arg |-> arg]

\* The globals a call get_mask(mask_type) reads: the function itself and the
\* global names its body evaluates on the path taken.
GetMaskUses(mask_type) ==
    {"get_mask", "np", "nb", "binary_dilation"}
    \cup (IF mask_type \in {"brain", "eyes", "both"} THEN {"resample_to_img", "func"} ELSE {})
    \cup (IF mask_type = "both" THEN {"math_img"} ELSE {})

Cell05b_01 ==
    <<Stmt("import", {}, {"plotting", "np", "nb"}, "-"),
      Stmt("expr", {}, {}, "-")>>

Cell05b_02 ==
    <<Stmt("const", {}, {"func"}, func_path),
      Stmt("expr", {"func"}, {}, "-")>>

Cell05b_03 ==
    <<Stmt("import", {}, {"resample_to_img", "math_img", "binary_dilation"}, "-"),
      Stmt("def", {}, {"get_mask"}, "-")>>

\* A faulty variant: the cell without its import.
Cell05b_04_no_import ==
    <<Stmt("expr", {}, {}, "-")>>

Cell05b_04 ==
    <<Stmt("import", {}, {"plot_roi"}, "-")>>

Cell05b_05 ==
    <<Stmt("const", {}, {"anat"}, anat_path),
      Stmt("get_mask", GetMaskUses("both"), {"mask"}, "both"),
      Stmt("expr", {"plot_roi", "mask", "anat"}, {}, "-")>>

Cell05b_06 ==
    <<Stmt("import", {}, {"NiftiMasker"}, "-"),
      Stmt("NiftiMasker", {"NiftiMasker", "mask"}, {"masker"}, "-"),
      Stmt("fit_transform", {"masker", "func"}, {"samples"}, "-"),
      Stmt("expr", {"samples"}, {}, "-")>>

Cell05b_07 ==
    <<Stmt("expr", {"samples"}, {}, "-")>>

Cell05b_08 ==
    <<Stmt("inverse_transform", {"masker", "samples"}, {"masked_epi"}, "-")>>

Cell05b_09 ==
    <<Stmt("import", {}, {"math_img", "plot_stat_map"}, "-"),
      Stmt("object", {"math_img", "masked_epi"}, {"max_zscores"}, "Nifti1Image"),
      Stmt("expr", {"plot_stat_map", "max_zscores", "anat"}, {}, "-")>>

Cell05b_10 ==
    <<Stmt("labels", {"np"}, {"labels"}, "-"),
      Stmt("expr", {"labels"}, {}, "-")>>

Cell05b_11 ==
    <<Stmt("chunks", {"np"}, {"chunks"}, "-"),
      Stmt("expr", {"chunks"}, {}, "-")>>

Cell05b_12 ==
    <<Stmt("import", {}, {"LinearSVC"}, "-"),
      Stmt("const", {"LinearSVC"}, {"clf"}, [class |-> "LinearSVC", penalty |-> "l2", loss |-> "squared_hinge", max_iter |-> 25])>>

Cell05b_13 ==
    <<Stmt("import", {}, {"LeaveOneGroupOut", "cross_val_score"}, "-"),
      Stmt("cross_val_score", {"cross_val_score", "clf", "samples", "labels", "chunks", "LeaveOneGroupOut"}, {"cv_scores"}, -1)>>

Cell05b_14 ==
    <<Stmt("expr", {"cv_scores"}, {}, "-"),
      Stmt("expr", {"cv_scores"}, {}, "-")>>

\* A faulty variant: the classifier is built but clf is not rebound to it.
Cell05b_15_not_rebound ==
    <<Stmt("import", {}, {"GaussianNB"}, "-"),
      Stmt("const", {"GaussianNB"}, {"clf_nb"}, [class |-> "GaussianNB"])>>

Cell05b_15 ==
    <<Stmt("import", {}, {"GaussianNB"}, "-"),
      Stmt("const", {"GaussianNB"}, {"clf"}, [class |-> "GaussianNB"])>>

Cell05b_16 ==
    <<Stmt("cross_val_score", {"cross_val_score", "clf", "samples", "labels", "chunks", "LeaveOneGroupOut"}, {"cv_scores"}, 1)>>

Cell05b_17 ==
    <<Stmt("expr", {"cv_scores"}, {}, "-"),
      Stmt("expr", {"cv_scores"}, {}, "-")>>

Cell05b_18 ==
    <<Stmt("import", {}, {"LogisticRegression"}, "-"),
      Stmt("const", {"LogisticRegression"}, {"clf"}, [class |-> "LogisticRegression", penalty |-> "l2", max_iter |-> 25])>>

Cell05b_19 ==
    <<Stmt("cross_val_score", {"cross_val_score", "clf", "samples", "labels", "chunks", "LeaveOneGroupOut"}, {"cv_scores"}, -1)>>

Cell05b_20 ==
    <<Stmt("expr", {"cv_scores"}, {}, "-"),
      Stmt("expr", {"cv_scores"}, {}, "-")>>

Cell05b_21 ==
    <<Stmt("import", {}, {"GaussianNB"}, "-"),
      Stmt("const", {"GaussianNB"}, {"clf"}, [class |-> "GaussianNB"])>>

Cell05b_22 ==
    <<Stmt("import", {}, {"permutation_test_score"}, "-")>>

Cell05b_23 ==
    <<Stmt("permutation_test_score", {"permutation_test_score", "clf", "samples", "labels", "chunks", "LeaveOneGroupOut"}, {"null_cv_scores"}, 25)>>

Cell05b_24 ==
    <<Stmt("expr", {"null_cv_scores"}, {}, "-")>>

Cell05b_25 ==
    <<Stmt("mask_test", {"chunks"}, {"mask_test"}, "-"),
      Stmt("mask_train", {"np", "mask_test"}, {"mask_train"}, "-")>>

Cell05b_26 ==
    <<Stmt("import", {}, {"index_img"}, "-"),
      Stmt("index_img", {"index_img", "func", "mask_train"}, {"X_train"}, "mask_train"),
      Stmt("take", {"labels", "mask_train"}, {"y_train"}, "mask_train"),
      Stmt("index_img", {"index_img", "func", "mask_test"}, {"X_test"}, "mask_test"),
      Stmt("take", {"labels", "mask_test"}, {"y_test"}, "mask_test")>>

Cell05b_27 ==
    <<Stmt("import", {}, {"SpaceNetClassifier"}, "-"),
      Stmt("SpaceNetClassifier", {"SpaceNetClassifier"} \cup GetMaskUses("both"), {"decoder"}, "-"),
      Stmt("decoder_fit", {"decoder", "X_train", "y_train"}, {"decoder"}, "-")>>

Cell05b_28 ==
    <<Stmt("decoder_predict", {"decoder", "X_test"}, {"y_pred"}, "-")>>

Cell05b_29 ==
    <<Stmt("accuracy", {"y_pred", "y_test"}, {"accuracy"}, "-"),
      Stmt("expr", {"accuracy"}, {}, "-")>>

Cell05b_30 ==
    <<Stmt("import", {}, {"plot_stat_map", "show"}, "-"),
      Stmt("object", {"decoder"}, {"coef_img"}, "Nifti1Image")>>

Cell05b_31 ==
    <<Stmt("import", {}, {"plot_glass_brain"}, "-"),
      Stmt("expr", {"plot_glass_brain", "coef_img", "accuracy"}, {}, "-")>>

Cell05b_32 ==
    <<Stmt("import", {}, {"SearchLight"}, "-")>>

Cell05b_33 ==
    <<Stmt("get_mask", GetMaskUses("both"), {"mask"}, "both")>>

Cell05b_34 ==
    <<Stmt("const", {"GaussianNB"}, {"clf"}, [class |-> "GaussianNB"])>>

Cell05b_35 ==
    <<Stmt("const", {}, {"sphere_radius"}, 8)>>

Cell05b_36 ==
    <<Stmt("SearchLight", {"SearchLight", "mask", "sphere_radius", "clf", "LeaveOneGroupOut"}, {"sl"}, "-")>>

Cell05b_37 ==
    <<Stmt("sl_fit", {"sl", "nb", "func", "labels", "chunks"}, {"sl"}, "-")>>

Cell05b_38 ==
    <<Stmt("import", {}, {"new_img_like"}, "-"),
      Stmt("object", {"new_img_like", "func", "sl"}, {"searchlight_img"}, "Nifti1Image")>>

Cell05b_39 ==
    <<Stmt("import", {}, {"plot_glass_brain"}, "-"),
      Stmt("expr", {"plot_glass_brain", "searchlight_img"}, {}, "-")>>

Cell05b_40 ==
    <<Stmt("import", {}, {"plot_stat_map"}, "-"),
      Stmt("expr", {"plot_stat_map", "searchlight_img", "anat"}, {}, "-")>>

Cells05b ==
    <<Cell05b_01, Cell05b_02, Cell05b_03, Cell05b_04, Cell05b_05,
      Cell05b_06, Cell05b_07, Cell05b_08, Cell05b_09, Cell05b_10,
      Cell05b_11, Cell05b_12, Cell05b_13, Cell05b_14, Cell05b_15,
      Cell05b_16, Cell05b_17, Cell05b_18, Cell05b_19, Cell05b_20,
      Cell05b_21, Cell05b_22, Cell05b_23, Cell05b_24, Cell05b_25,
      Cell05b_26, Cell05b_27, Cell05b_28, Cell05b_29, Cell05b_30,
      Cell05b_31, Cell05b_32, Cell05b_33, Cell05b_34, Cell05b_35,
      Cell05b_36, Cell05b_37, Cell05b_38, Cell05b_39, Cell05b_40>>

Cell04a_01 ==
    <<Stmt("import", {}, {"BIDSLayout", "get_test_data_path", "os"}, "-")>>

Cell04a_02 ==
    <<Stmt("const", {}, {"data_path"}, "/data/ds000114/"),
      Stmt("object", {"BIDSLayout", "data_path"}, {"layout"}, "BIDSLayout"),
      Stmt("expr", {"layout"}, {}, "-")>>

Cell04a_03 ==
    <<Stmt("object", {"layout"}, {"all_files"}, "list"),
      Stmt("expr", {"all_files"}, {}, "-"),
      Stmt("expr", {}, {}, "-"),
      Stmt("expr", {"all_files"}, {}, "-")>>

Cell04a_04 ==
    <<Stmt("expr", {"layout"}, {}, "-")>>

Cell04a_05 ==
    <<Stmt("expr", {"layout"}, {}, "-")>>

Cell04a_06 ==
    <<Stmt("expr", {"layout"}, {}, "-")>>

Cell04a_07 ==
    <<Stmt("expr", {"layout"}, {}, "-")>>

Cell04a_08 ==
    <<Stmt("expr", {"layout"}, {}, "-")>>

Cell04a_09 ==
    <<Stmt("expr", {"layout"}, {}, "-")>>

Cell04a_10 ==
    <<Stmt("expr", {"layout"}, {}, "-")>>

Cell04a_11 ==
    <<Stmt("expr", {"layout"}, {}, "-")>>

Cell04a_12 ==
    <<Stmt("expr", {"layout"}, {}, "-")>>

Cell04a_13 ==
    <<Stmt("object", {"layout"}, {"bf"}, "BIDSFile"),
      Stmt("expr", {"bf"}, {}, "-")>>

Cell04a_14 ==
    <<Stmt("expr", {"bf"}, {}, "-")>>

Cell04a_15 ==
    <<Stmt("expr", {"bf"}, {}, "-")>>

Cell04a_16 ==
    <<Stmt("expr", {"bf"}, {}, "-")>>

Cell04a_17 ==
    <<Stmt("expr", {"bf"}, {}, "-")>>

Cell04a_18 ==
    <<Stmt("object", {"os", "get_test_data_path"}, {"data_path"}, "str"),
      Stmt("object", {"BIDSLayout", "data_path"}, {"layout2"}, "BIDSLayout"),
      Stmt("object", {"layout2"}, {"recfile"}, "BIDSDataFile"),
      Stmt("object", {"recfile"}, {"df"}, "DataFrame"),
      Stmt("expr", {"df"}, {}, "-")>>

Cell04a_19 ==
    <<Stmt("expr", {"recfile"}, {}, "-")>>

Cell04a_20 ==
    <<Stmt("const", {}, {"path"}, "/a/fake/path/to/a/BIDS/file/sub-01_run-1_T2w.nii.gz"),
      Stmt("expr", {"layout", "path"}, {}, "-")>>

Cell04a_21 ==
    <<Stmt("object", {}, {"entities"}, "dict"),
      Stmt("expr", {"layout", "entities"}, {}, "-")>>

Cell04a_22 ==
    <<Stmt("object", {}, {"pattern"}, "tuple"),
      Stmt("object", {}, {"entities"}, "dict"),
      Stmt("expr", {"layout", "entities", "pattern"}, {}, "-")>>

Cell04a_23 ==
    <<Stmt("object", {"layout"}, {"df"}, "DataFrame"),
      Stmt("expr", {"df"}, {}, "-")>>

Cell04a_24 ==
    <<Stmt("expr", {"layout"}, {}, "-")>>

Cell04a_25 ==
    <<Stmt("import", {}, {"BIDSValidator"}, "-"),
      Stmt("object", {"BIDSValidator"}, {"validator"}, "BIDSValidator"),
      Stmt("expr", {"validator"}, {}, "-")>>

Cell04a_26 ==
    <<Stmt("expr", {"validator"}, {}, "-")>>

Cell04a_27 ==
    <<Stmt("expr", {"validator"}, {}, "-")>>

Cell04a_28 ==
    <<Stmt("expr", {"validator"}, {}, "-")>>

Cell04a_29 ==
    <<Stmt("expr", {"validator"}, {}, "-")>>

Cell04a_30 ==
    <<Stmt("expr", {"validator"}, {}, "-")>>

Cells04a ==
    <<Cell04a_01, Cell04a_02, Cell04a_03, Cell04a_04, Cell04a_05,
      Cell04a_06, Cell04a_07, Cell04a_08, Cell04a_09, Cell04a_10,
      Cell04a_11, Cell04a_12, Cell04a_13, Cell04a_14, Cell04a_15,
      Cell04a_16, Cell04a_17, Cell04a_18, Cell04a_19, Cell04a_20,
      Cell04a_21, Cell04a_22, Cell04a_23, Cell04a_24, Cell04a_25,
      Cell04a_26, Cell04a_27, Cell04a_28, Cell04a_29, Cell04a_30>>

Cells(notebook) == IF notebook = "05b" THEN Cells05b ELSE Cells04a

----------------------------------------------------------------------------
(* Running statements and cells.  A kernel state is
   [ns |-> namespace, calls |-> get_mask returns, err |-> exception]. *)

MaskTypes == {"brain", "eyes", "both", "all"}
NotCalled == [err |-> "not called"]

\* The values of n_jobs written in the cells: -1 (one worker per CPU) and 1.
NJobs == {-1, 1}
\* No cross_val_score call is being evaluated.
IdlePool == [phase |-> "idle"]

Bind(s, vals) == [s EXCEPT !.ns = vals @@ s.ns]
Raise(s, e) == [s EXCEPT !.err = e]

\* The outcome r = [err, ret] of a call bound to the names of st.
BindResult(st, s, r) ==
    IF r.err # "none" THEN Raise(s, r.err)
    ELSE Bind(s, [x \in st.binds |-> r.ret])

\* permutation_test_score(estimator, X, y, groups, cv, n_permutations): the
\* score on the true labels, the scores on the permuted labels, the p-value.
permutation_test_score(estimator, X, y, groups, n_permutations) ==
    IF ~(Len(X.rows) = Len(y) /\ Len(y) = Len(groups))
    THEN [err |-> "ValueError"]
    ELSE [err |-> "none",
          ret |-> [estimator |-> estimator.class,
                   n_folds |-> Len(LeaveOneGroupOut_split(groups)),
                   n_permutations |-> n_permutations]]

\* index_img(func, mask) and labels[mask] with a boolean mask: the mask must
\* be as long as the axis it indexes.
checked_index_img(img, mask) ==
    IF img.shape[4] # Len(mask) THEN [err |-> "IndexError"]
    ELSE [err |-> "none", ret |-> index_img(img, mask)]

checked_take(arr, mask) ==
    IF Len(arr) # Len(mask) THEN [err |-> "IndexError"]
    ELSE [err |-> "none", ret |-> take(arr, mask)]

\* One statement: a NameError when it reads an unbound global, else its effect.
ExecStmt(st, s, f) ==
    LET n == s.ns
    IN  IF ~(st.uses \subseteq DOMAIN n) THEN Raise(s, "NameError")
        ELSE CASE st.op = "import" -> Bind(s, [x \in st.binds |-> [class |-> "imported"]])
          [] st.op = "def" -> Bind(s, [x \in st.binds |-> [class |-> "function"]])
          [] st.op = "const" -> Bind(s, [x \in st.binds |-> st.arg])
          [] st.op = "object" -> Bind(s, [x \in st.binds |-> [class |-> st.arg]])
          [] st.op = "expr" -> s
          [] st.op = "get_mask" ->
                LET r == get_mask(st.arg, n, f)
                IN  BindResult(st, [s EXCEPT !.calls[st.arg] = r], r)
          [] st.op = "NiftiMasker" -> Bind(s, "masker" :> NiftiMasker(n["mask"]))
          [] st.op = "fit_transform" ->
                BindResult(st, s, fit_transform(n["masker"], f[n["func"]]))
          [] st.op = "inverse_transform" ->
                Bind(s, "masked_epi" :> inverse_transform(n["masker"], n["samples"]))
          [] st.op = "labels" -> Bind(s, "labels" :> labels_value)
          [] st.op = "chunks" -> Bind(s, "chunks" :> chunks_value)
          [] st.op = "cross_val_score" ->
                BindResult(st, s,
                    cross_val_score(n["clf"], n["samples"], n["labels"], n["chunks"]))
          [] st.op = "permutation_test_score" ->
                BindResult(st, s,
                    permutation_test_score(n["clf"], n["samples"], n["labels"],
                                           n["chunks"], st.arg))
          [] st.op = "mask_test" -> Bind(s, "mask_test" :> mask_test_value(n["chunks"]))
          [] st.op = "mask_train" -> Bind(s, "mask_train" :> mask_train_value(n["mask_test"]))
          [] st.op = "index_img" ->
                BindResult(st, s, checked_index_img(f[n["func"]], n[st.arg]))
          [] st.op = "take" -> BindResult(st, s, checked_take(n["labels"], n[st.arg]))
          [] st.op = "SpaceNetClassifier" ->
                LET r == get_mask("both", n, f)
                    t == [s EXCEPT !.calls["both"] = r]
                IN  IF r.err # "none" THEN Raise(t, r.err)
                    ELSE Bind(t, "decoder" :>
                            [class |-> "SpaceNetClassifier", mask |-> r.ret, fitted |-> FALSE])
          [] st.op = "decoder_fit" ->
                IF n["X_train"].shape[4] # Len(n["y_train"]) THEN Raise(s, "ValueError")
                ELSE Bind(s, "decoder" :> [n["decoder"] EXCEPT !.fitted = TRUE])
          [] st.op = "decoder_predict" ->
                Bind(s, "y_pred" :> [class |-> "ndarray", len |-> n["X_test"].shape[4]])
          [] st.op = "accuracy" ->
                Bind(s, "accuracy" :> [class |-> "float64", of |-> Len(n["y_test"])])
          [] st.op = "SearchLight" ->
                Bind(s, "sl" :> [class |-> "SearchLight", estimator |-> n["clf"].class,
                                 radius |-> n["sphere_radius"], fitted |-> FALSE])
          [] st.op = "sl_fit" ->
                IF ~(f[n["func"]].shape[4] = Len(n["labels"])
                     /\ Len(n["labels"]) = Len(n["chunks"]))
                THEN Raise(s, "ValueError")
                ELSE Bind(s, "sl" :> [n["sl"] EXCEPT !.fitted = TRUE])

\* The statements of a cell in order; the cell stops at the first exception.
RECURSIVE ExecCell(_, _, _)
ExecCell(stmts, s, f) ==
    IF stmts = <<>> \/ s.err # "none" THEN s
    ELSE ExecCell(Tail(stmts), ExecStmt(Head(stmts), s, f), f)

\* The kernel state after the first k cells of a notebook ran from a fresh kernel.
RECURSIVE AfterCells(_, _, _)
AfterCells(cells, k, f) ==
    IF k = 0 THEN [ns |-> <<>>, calls |-> [t \in MaskTypes |-> NotCalled], err |-> "none"]
    ELSE ExecCell(cells[k], AfterCells(cells, k - 1, f), f)

----------------------------------------------------------------------------
(* The kernel runs a notebook's cells once, top to bottom ("Run All"), and
   stops at the first cell that raises. *)

NoFiles == <<>>

\* The files the MVPA notebook reads: T1 templates and a functional image of
\* NVolumes volumes, all on the same grid.
FilesMain ==
    { (func_path :> fn) @@ (brain_path :> b) @@ (eyes_path :> e) :
        fn \in { Tile(Image4D(1, [v \in Voxels |-> <<IF v % 2 = 0 THEN 1 ELSE 3>>]), NVolumes) },
        b \in TemplateImages(IntensT1),
        e \in TemplateImages(IntensT1) }

Init ==
    /\ nbk \in {"05b", "04a"}
    /\ pc = 1
    /\ ns = <<>>
    /\ fs \in IF nbk = "05b" THEN FilesMain ELSE {NoFiles}
    /\ err = "none"
    /\ calls = [t \in MaskTypes |-> NotCalled]
    /\ pool = IdlePool
    /\ scored = [j \in NJobs |-> NotCalled]

RunCell(notebook) ==
    /\ nbk = notebook
    /\ err = "none"
    /\ pc <= Len(Cells(notebook))
    /\ LET s == ExecCell(Cells(notebook)[pc], [ns |-> ns, calls |-> calls, err |-> "none"], fs)
       IN  /\ ns' = s.ns
           /\ calls' = s.calls
           /\ err' = s.err
    /\ pc' = pc + 1
    /\ UNCHANGED <<nbk, fs, pool, scored>>

RunCell05b == RunCell("05b")
RunCell04a == RunCell("04a")

Next == RunCell05b \/ RunCell04a

Spec == Init /\ [][Next]_vars

----------------------------------------------------------------------------
(* get_mask called from the prompt: after the first four cells ran, cells of
   the form  mask = get_mask(<mask_type>)  are run in any order.  The brain
   template is drawn non-negative; the eye template may hold negative
   intensities. *)

FilesMask ==
    { (func_path :> Image4D(1, [v \in Voxels |-> <<1>>]))
        @@ (brain_path :> b) @@ (eyes_path :> e) :
        b \in TemplateImages({x \in Intens : x >= 0}), e \in TemplateImages(Intens) }

InitMask ==
    /\ nbk = "05b"
    /\ pc = 5
    /\ fs \in FilesMask
    /\ ns = AfterCells(Cells05b, 4, fs).ns
    /\ err = "none"
    /\ calls = [t \in MaskTypes |-> NotCalled]
    /\ pool = IdlePool
    /\ scored = [j \in NJobs |-> NotCalled]

CallGetMask(t) ==
    /\ nbk = "05b"
    /\ LET s == ExecCell(<<Stmt("get_mask", GetMaskUses(t), {"mask"}, t)>>,
                         [ns |-> ns, calls |-> calls, err |-> "none"], fs)
       IN  /\ ns' = s.ns
           /\ calls' = s.calls
           /\ err' = s.err
    /\ UNCHANGED <<nbk, pc, fs, pool, scored>>

NextMask == \E t \in MaskTypes : CallGetMask(t)

SpecMask == InitMask /\ [][NextMask]_vars

----------------------------------------------------------------------------
(* Masking and un-masking: cells 6 to 8 of the MVPA notebook on functional
   images of 1 .. MaxT volumes. *)

FilesMasker ==
    { (func_path :> fn) @@ (brain_path :> b)
        @@ (eyes_path :> Image3D([v \in Voxels |-> 0])) :
        fn \in UNION { FuncImages(nt) : nt \in 1 .. MaxT },
        b \in TemplateImages(IntensT1) }

InitMasker ==
    /\ nbk = "05b"
    /\ pc = 6
    /\ fs \in FilesMasker
    /\ ns = AfterCells(Cells05b, 5, fs).ns
    /\ calls = AfterCells(Cells05b, 5, fs).calls
    /\ err = "none"
    /\ pool = IdlePool
    /\ scored = [j \in NJobs |-> NotCalled]

RunMaskingCell ==
    /\ pc \in 6 .. 8
    /\ RunCell("05b")

NextMasker == RunMaskingCell

SpecMasker == InitMasker /\ [][NextMasker]_vars

----------------------------------------------------------------------------
(* cross_val_score fold by fold.  A cross-validation cell (LinearSVC,
   GaussianNB or LogisticRegression in clf) is run as written and then once
   more with the other value of n_jobs.  The folds are handed out in the
   order of the split; a free worker takes the next fold, the workers finish
   in any order, and the call returns the outputs in the order the folds were
   handed out.  With n_jobs=1 the only worker is the kernel process, which
   fits and scores the folds one after the other. *)

\* The worker processes n_jobs=-1 starts: one per CPU of the machine.
NWorkers == 2

\* The seeds a fit can draw from its process's random generator.
Seeds == {0, 1}

\* LinearSVC(penalty='l2', loss='squared_hinge', max_iter=25) is built without
\* random_state: its dual coordinate descent shuffles the samples with a seed
\* drawn from the global random generator of the process that fits it, and
\* with 25 iterations the fit depends on the shuffling.  GaussianNB() and
\* LogisticRegression(penalty='l2', max_iter=25) fit without random numbers.
SeedsOf(estimator) == IF estimator.class = "LinearSVC" THEN Seeds ELSE {0}

\* The score of one fold: what determines it is the estimator, the fold and
\* the seed the fit drew.
fit_and_score(estimator, fold, seed) ==
    [estimator |-> estimator.class,
     held_out |-> fold.group,
     n_train |-> Cardinality(fold.train),
     n_test |-> Cardinality(fold.test),
     seed |-> seed]

\* A faulty variant: the outputs in the order the workers finished.
retrieve_as_completed(p) == [j \in 1 .. p.n_folds |-> p.out[p.order[j]]]

\* The outputs of a parallel call, in the order the folds were handed out.
retrieve(p) == [j \in 1 .. p.n_folds |-> p.out[j]]

FilesParallel ==
    { f \in FilesMain :
        \A v \in Voxels : f[brain_path].data[v] = 10 /\ f[eyes_path].data[v] = 0 }

\* The cells of the MVPA notebook that call cross_val_score.
CrossValCells ==
    { k \in 1 .. Len(Cells05b) :
        \E j \in 1 .. Len(Cells05b[k]) : Cells05b[k][j].op = "cross_val_score" }

InitParallel ==
    /\ nbk = "05b"
    /\ pc \in CrossValCells
    /\ fs \in FilesParallel
    /\ ns = AfterCells(Cells05b, pc - 1, fs).ns
    /\ calls = AfterCells(Cells05b, pc - 1, fs).calls
    /\ err = "none"
    /\ pool = IdlePool
    /\ scored = [j \in NJobs |-> NotCalled]

\* The cross_val_score statement of the cell at pc (its last statement) and
\* the kernel state its earlier statements leave.
CrossValStmt == Cells05b[pc][Len(Cells05b[pc])]
BeforeCrossVal ==
    ExecCell(SubSeq(Cells05b[pc], 1, Len(Cells05b[pc]) - 1),
             [ns |-> ns, calls |-> calls, err |-> "none"], fs)

\* The cell is run with n_jobs = n: first as written, then with the other value.
MayCall(n) ==
    /\ nbk = "05b" /\ pc \in CrossValCells
    /\ pool.phase = "idle"
    /\ err = "none"
    /\ scored[n] = NotCalled
    /\ n # CrossValStmt.arg => scored[CrossValStmt.arg].err = "none"

\* The checks cross_val_score makes before any fold is fitted.
CrossValError(s) ==
    IF ~(CrossValStmt.uses \subseteq DOMAIN s.ns) THEN "NameError"
    ELSE IF ~(Len(s.ns["samples"].rows) = Len(s.ns["labels"])
              /\ Len(s.ns["labels"]) = Len(s.ns["chunks"]))
    THEN "ValueError"
    ELSE "none"

\* cross_val_score(..., n_jobs=n): the estimator is cloned and the folds are
\* queued, in the order of the split, for n_jobs workers: the kernel process
\* alone when n_jobs=1, one worker process per CPU when n_jobs=-1.
CrossValScore(n) ==
    /\ MayCall(n)
    /\ LET s == BeforeCrossVal
           e == CrossValError(s)
       IN  /\ ns' = s.ns
           /\ err' = e
           /\ IF e # "none"
              THEN /\ scored' = [scored EXCEPT ![n] = [err |-> e]]
                   /\ UNCHANGED pool
              ELSE /\ pool' = [phase |-> "running",
                               n_jobs |-> n,
                               workers |-> IF n = 1 THEN 1 ELSE NWorkers,
                               estimator |-> s.ns["clf"],
                               n_folds |-> Len(LeaveOneGroupOut_split(s.ns["chunks"])),
                               next |-> 1,
                               running |-> {},
                               out |-> <<>>,
                               order |-> <<>>]
                   /\ UNCHANGED scored
    /\ UNCHANGED <<nbk, pc, fs, calls>>

\* A free worker takes the next fold of the queue.
WorkerStart ==
    /\ pool.phase = "running"
    /\ pool.next <= pool.n_folds
    /\ Cardinality(pool.running) < pool.workers
    /\ pool' = [pool EXCEPT !.running = @ \cup {pool.next}, !.next = @ + 1]
    /\ UNCHANGED <<nbk, pc, ns, fs, err, calls, scored>>

\* The worker fitting fold k finishes: the fold's score, computed with the
\* seed the worker's fit drew, is stored as the output of fold k.
WorkerFinish(k, seed) ==
    /\ pool.phase = "running"
    /\ k \in pool.running
    /\ seed \in SeedsOf(pool.estimator)
    /\ LET folds == LeaveOneGroupOut_split(ns["chunks"])
       IN  pool' = [pool EXCEPT
                        !.running = @ \ {k},
                        !.out = (k :> fit_and_score(pool.estimator, folds[k], seed)) @@ @,
                        !.order = Append(@, k)]
    /\ UNCHANGED <<nbk, pc, ns, fs, err, calls, scored>>

\* Every fold has finished: the call returns the outputs and the cell binds
\* cv_scores.
CrossValReturn ==
    /\ pool.phase = "running"
    /\ Len(pool.order) = pool.n_folds
    /\ LET ret == retrieve(pool)
       IN  /\ ns' = ("cv_scores" :> ret) @@ ns
           /\ scored' = [scored EXCEPT ![pool.n_jobs] =
                   [err |-> "none", ret |-> ret,
                    overtaken |-> pool.order # [j \in 1 .. pool.n_folds |-> j]]]
    /\ pool' = IdlePool
    /\ UNCHANGED <<nbk, pc, fs, err, calls>>

NextParallel ==
    \/ \E n \in NJobs : CrossValScore(n)
    \/ WorkerStart
    \/ \E k \in 1 .. NChunks : \E seed \in Seeds : WorkerFinish(k, seed)
    \/ CrossValReturn

SpecParallel == InitParallel /\ [][NextParallel]_vars

----------------------------------------------------------------------------
(* Properties *)

Bound(name) == name \in DOMAIN ns

\* The cell that just ran holds a statement with operation op.
JustRan(op) ==
    /\ pc > 1
    /\ pc - 1 <= Len(Cells(nbk))
    /\ \E j \in 1 .. Len(Cells(nbk)[pc - 1]) : Cells(nbk)[pc - 1][j].op = op

\* C1: the labels array has exactly 384 entries and the label of volume k
\* (k = 0 .. 383) is 'closed' when k mod 8 is in 0 .. 3 and 'open' when k mod 8
\* is in 4 .. 7.
C1_LabelsAlternate ==
    Bound("labels") =>
        /\ Len(ns["labels"]) = 384
        /\ \A k \in 0 .. 383 :
              ns["labels"][k + 1] = IF k % 8 \in 0 .. 3 THEN "closed" ELSE "open"

\* The labels cell of the MVPA notebook has run.
C1_Witness == nbk = "05b" /\ Bound("labels") /\ err = "none"

\* C2: the chunks array has exactly 384 entries, the chunk of volume k is
\* k div 64, the chunks are exactly 0 .. 5 and each holds 64 consecutive volumes.
C2_ChunksOf64 ==
    Bound("chunks") =>
        LET chunks == ns["chunks"]
        IN  /\ Len(chunks) = 384
            /\ \A k \in 0 .. 383 : chunks[k + 1] = k \div 64
            /\ {chunks[k + 1] : k \in 0 .. 383} = 0 .. 5
            /\ \A c \in 0 .. 5 :
                  {k \in 0 .. 383 : chunks[k + 1] = c} = (64 * c) .. (64 * c + 63)

\* The chunks cell of the MVPA notebook has run.
C2_Witness == nbk = "05b" /\ Bound("chunks") /\ err = "none"

\* C3: the leave-one-group-out cross-validation over the chunks has exactly 6
\* folds; each fold tests all 64 volumes of exactly one chunk and trains on
\* the 320 volumes of the other five, train and test are disjoint, every chunk
\* is the test chunk of exactly one fold and every volume is tested exactly once.
\* (Stated of the state each cross_val_score cell leaves.)
C3_LeaveOneChunkOut ==
    (Bound("cv_scores") /\ JustRan("cross_val_score")) =>
        LET chunks == ns["chunks"]
            all == 0 .. (Len(chunks) - 1)
            folds == LeaveOneGroupOut_split(chunks)
            scores == ns["cv_scores"]
        IN  /\ Len(folds) = 6
            /\ Len(scores) = 6
            /\ \A j \in 1 .. 6 :
                  /\ \E c \in 0 .. 5 : folds[j].test = {k \in all : chunks[k + 1] = c}
                  /\ Cardinality(folds[j].test) = 64
                  /\ Cardinality(folds[j].train) = 320
                  /\ folds[j].train = all \ folds[j].test
                  /\ folds[j].train \cap folds[j].test = {}
                  /\ scores[j].n_test = 64
                  /\ scores[j].n_train = 320
            /\ \A c \in 0 .. 5 :
                  Cardinality({j \in 1 .. 6 :
                        folds[j].test = {k \in all : chunks[k + 1] = c}}) = 1
            /\ \A k \in all : Cardinality({j \in 1 .. 6 : k \in folds[j].test}) = 1

\* A cross-validation of the MVPA notebook has returned its scores.
C3_Witness ==
    /\ nbk = "05b" /\ err = "none"
    /\ Bound("cv_scores") /\ JustRan("cross_val_score")
    /\ Len(ns["cv_scores"]) > 0

\* C4: mask_test selects exactly the 64 volumes of chunk 5 and mask_train
\* exactly the 320 volumes of chunks 0 to 4; the two sets are disjoint and
\* cover all 384 volumes; the training and test data follow the masks.
C4_TrainTestSplit ==
    /\ (Bound("mask_test") /\ Bound("mask_train")) =>
          LET test == selected(ns["mask_test"])
              train == selected(ns["mask_train"])
          IN  /\ test = {k \in 0 .. 383 : ns["chunks"][k + 1] = 5}
              /\ test = 320 .. 383
              /\ train = {k \in 0 .. 383 : ns["chunks"][k + 1] \in 0 .. 4}
              /\ train = 0 .. 319
              /\ test \cap train = {}
              /\ test \cup train = 0 .. 383
    /\ (Bound("y_train") /\ Bound("X_train")) =>
          /\ Len(ns["y_train"]) = 320
          /\ ns["X_train"].shape[4] = 320
          /\ \A j \in 1 .. 320 : ns["y_train"][j] = ns["labels"][j]
    /\ (Bound("y_test") /\ Bound("X_test")) =>
          /\ Len(ns["y_test"]) = 64
          /\ ns["X_test"].shape[4] = 64
          /\ \A j \in 1 .. 64 : ns["y_test"][j] = ns["labels"][320 + j]

\* The split cells have run: both masks and both data sets are bound.
C4_Witness == Bound("mask_test") /\ Bound("mask_train") /\ Bound("y_test") /\ Bound("X_test")

NonNegativeTemplates ==
    \A v \in Voxels : fs[brain_path].data[v] >= 0 /\ fs[eyes_path].data[v] >= 0

Returned(t) == calls[t].err = "none"

C6_NamesBoundBeforeUse ==
    /\ err # "NameError"
    /\ (err = "none" /\ pc <= Len(Cells(nbk))) =>
          LET cell == Cells(nbk)[pc]
          IN  \A j \in 1 .. Len(cell) :
                  cell[j].uses \subseteq
                      (DOMAIN ns \cup UNION {cell[i].binds : i \in 1 .. (j - 1)})

\* The MVPA notebook ran to its last cell without an exception.
C6_Witness == nbk = "05b" /\ pc = Len(Cells05b) + 1 /\ err = "none"

InvalidMaskTypes == MaskTypes \ {"brain", "eyes", "both"}

\* C7: a call of get_mask with a mask_type other than 'brain', 'eyes' or
\* 'both' raises an uncaught UnboundLocalError at the binarize step, returns
\* no mask and leaves the global namespace (func and mask included) unchanged.
C7_InvalidTypeRaises ==
    [][\A t \in InvalidMaskTypes :
          CallGetMask(t) =>
              /\ err' = "UnboundLocalError"
              /\ calls'[t].err = "UnboundLocalError"
              /\ calls'[t].at = "data_binary"
              /\ "ret" \notin DOMAIN calls'[t]
              /\ ns' = ns]_vars

\* get_mask('all') failed after an earlier call had bound mask, which is
\* still the mask of that earlier call.
C7_Witness ==
    /\ err = "UnboundLocalError"
    /\ calls["all"].err = "UnboundLocalError"
    /\ Bound("mask") /\ Bound("func")
    /\ \E t \in {"brain", "eyes", "both"} : Returned(t) /\ ns["mask"] = calls[t].ret

MaskData == ns["mask"].data
InMask(v) == MaskData[v] # 0
\* The column of voxel v: mask voxels are numbered in array order from 1.
ColumnOf(v) == Cardinality({w \in Voxels : w < v /\ InMask(w)}) + 1

IsZScored(num, den2) ==
    /\ SumSeq(num) = 0
    /\ \/ SumSeq([t \in 1 .. Len(num) |-> num[t] * num[t]]) = Len(num) * den2
       \/ \A t \in 1 .. Len(num) : num[t] = 0

\* C10: the BOLD series returned by masker.inverse_transform(samples) is
\* z-scored: every in-mask voxel's time series has been standardized.
C10_InverseIsZScored ==
    Bound("masked_epi") =>
        \A v \in Voxels :
            InMask(v) => IsZScored(ns["masked_epi"].data[v], ns["masked_epi"].den2[v])

\* The estimator the text of the MVPA notebook announces for each code cell
\* that reads clf (the cells are numbered from 1).
Announced ==
    (13 :> "LinearSVC") @@ (16 :> "GaussianNB") @@ (19 :> "LogisticRegression")
        @@ (23 :> "GaussianNB") @@ (36 :> "GaussianNB")

\* Cell k of the MVPA notebook holds a statement that reads the name x.
Reads(k, x) == \E j \in 1 .. Len(Cells05b[k]) : x \in Cells05b[k][j].uses
\* Cell k of the MVPA notebook holds a statement with operation op.
Performs(k, op) == \E j \in 1 .. Len(Cells05b[k]) : Cells05b[k][j].op = op
\* The latest cross_val_score cell before cell k (0 when there is none).
LastCrossVal(k) ==
    LET before == {i \in 1 .. (k - 1) : Performs(i, "cross_val_score")}
    IN  IF before = {} THEN 0 ELSE CHOOSE i \in before : \A h \in before : h <= i

Scored(n) == scored[n].err = "none"
\* The seeds the fits of the call with n_jobs = n drew, fold by fold.
SeedsDrawn(n) == [j \in 1 .. Len(scored[n].ret) |-> scored[n].ret[j].seed]

====
